---- MODULE Spec2Model ----
(***************************************************************************)
(* common-iface: prints the common interface of the types named on the     *)
(* command line.  The model follows main() of main.go step by step: the    *)
(* argument loop, the package load, the scope lookups, the intersection    *)
(* loop, the sorted name list, the rendering of the interface and the      *)
(* optional header.                                                        *)
(*                                                                         *)
(* Strings are sequences of byte values, so that LastIndexByte, slicing,   *)
(* ast.IsExported and sort.Strings are computed on the bytes as the code   *)
(* does.                                                                   *)
(***************************************************************************)
EXTENDS Integers, Sequences, FiniteSets, TLC

\* Longest command line explored.
MaxArgs == 3

\* The byte '.', the separator searched by strings.LastIndexByte.
Dot == 46

----------------------------------------------------------------------------
(* The packages and declarations the type checker can find. *)

pkgP  == <<112>>              \* "p"
pkgPX == <<112, 46, 120>>     \* "p.x"
pkgQ  == <<113>>              \* "q"   (does not exist)

nmT == <<84>>                 \* "T"
nmU == <<85>>                 \* "U"
nmI == <<73>>                 \* "I"
nmE == <<69>>                 \* "E"
nmV == <<86>>                 \* "V"
nmn == <<110>>                \* "n"
nmX == <<88>>                 \* "X"   (not declared)

mC  == <<67>>                 \* "C"
mR  == <<82>>                 \* "R"
mRa == <<82, 97>>             \* "Ra"
mW  == <<87>>                 \* "W"
mf  == <<102>>                \* "f"   (unexported)

\* The packages conf.Load() can load.
Packages == {pkgP, pkgPX}

Named(pkg, name) == [kind |-> "Named", pkg |-> pkg, name |-> name]
NewPointer(t) == [kind |-> "Pointer", pkg |-> t.pkg, name |-> t.name]
Elem(t) == Named(t.pkg, t.name)
NotNamed == [kind |-> "Signature", pkg |-> <<>>, name |-> <<>>]

\* A declared method: its name, the shape of its signature (what
\* types.Identical compares) and whether it carries a doc comment.
M(name, shape, doc) == [name |-> name, shape |-> shape, doc |-> doc]

\* The declared types: interface or not, the methods with a value receiver
\* (or the interface's methods), and the methods with a pointer receiver.
TypeDecl(pkg, name) ==
    IF pkg = pkgP /\ name = nmT THEN
        [iface |-> FALSE,
         val |-> {M(mR, 1, TRUE), M(mC, 2, TRUE)},
         ptr |-> {M(mW, 1, FALSE), M(mf, 3, TRUE), M(mRa, 2, FALSE)}]
    ELSE IF pkg = pkgP /\ name = nmU THEN
        [iface |-> FALSE,
         val |-> {M(mR, 1, TRUE), M(mW, 1, TRUE)},
         ptr |-> {M(mC, 4, TRUE), M(mf, 3, FALSE)}]
    ELSE IF pkg = pkgP /\ name = nmI THEN
        [iface |-> TRUE,
         val |-> {M(mR, 1, FALSE), M(mC, 2, TRUE), M(mf, 3, TRUE)},
         ptr |-> {}]
    ELSE IF pkg = pkgPX /\ name = nmT THEN
        [iface |-> FALSE,
         val |-> {M(mf, 3, TRUE)},
         ptr |-> {M(mR, 1, TRUE), M(mC, 2, FALSE), M(mRa, 2, TRUE)}]
    ELSE
        [iface |-> FALSE, val |-> {}, ptr |-> {}]

\* pkg.Pkg.Scope().Lookup(name): the object, or none.  An object is a type
\* name, a variable or a function, and has a type.
NoObject == [okind |-> "nil", type |-> NotNamed]
Lookup(pkg, name) ==
    IF pkg = pkgP /\ name \in {nmT, nmU, nmI, nmE} THEN
        [okind |-> "TypeName", type |-> Named(pkg, name)]
    ELSE IF pkg = pkgP /\ name = nmV THEN
        [okind |-> "Var", type |-> Named(pkgP, nmI)]
    ELSE IF pkg = pkgP /\ name = nmn THEN
        [okind |-> "Func", type |-> NotNamed]
    ELSE IF pkg = pkgPX /\ name = nmT THEN
        [okind |-> "TypeName", type |-> Named(pkg, name)]
    ELSE NoObject

\* The command-line arguments explored.
ArgStrings ==
    { pkgP \o <<Dot>> \o nmT,      \* "p.T"
      pkgP \o <<Dot>> \o nmU,      \* "p.U"
      pkgP \o <<Dot>> \o nmI,      \* "p.I"
      pkgP \o <<Dot>> \o nmE,      \* "p.E"
      pkgP \o <<Dot>> \o nmV,      \* "p.V"
      pkgP \o <<Dot>> \o nmn,      \* "p.n"
      pkgP \o <<Dot>> \o nmX,      \* "p.X"
      pkgP \o <<Dot>>,             \* "p."
      <<Dot>> \o nmT,              \* ".T"
      nmT,                         \* "T"
      pkgQ \o <<Dot>> \o nmT,      \* "q.T"
      pkgPX \o <<Dot>> \o nmT }    \* "p.x.T"

SeqsUpTo(S, n) == UNION {[1..k -> S] : k \in 0..n}

----------------------------------------------------------------------------
(* Library functions, computed as the libraries compute them. *)

\* strings.LastIndexByte: the 0-based index of the last c in s, or -1.
LastIndexByte(s, c) ==
    LET hits == {k \in 1..Len(s) : s[k] = c}
    IN IF hits = {} THEN -1
       ELSE (CHOOSE k \in hits : \A j \in hits : j <= k) - 1

\* ast.IsExported: the name begins with an upper-case letter.
IsExported(name) == Len(name) > 0 /\ name[1] >= 65 /\ name[1] <= 90

\* The comparison of sort.Strings: byte-wise lexicographic order.
RECURSIVE Less(_, _)
Less(a, b) ==
    IF Len(b) = 0 THEN FALSE
    ELSE IF Len(a) = 0 THEN TRUE
    ELSE IF a[1] # b[1] THEN a[1] < b[1]
    ELSE Less(Tail(a), Tail(b))

RECURSIVE Insert(_, _)
Insert(x, s) ==
    IF Len(s) = 0 THEN <<x>>
    ELSE IF Less(s[1], x) THEN <<s[1]>> \o Insert(x, Tail(s))
    ELSE <<x>> \o s

RECURSIVE InsertionSort(_)
InsertionSort(s) ==
    IF Len(s) = 0 THEN <<>> ELSE Insert(s[1], InsertionSort(Tail(s)))

\* Faulty variant: the names are left in map order.
NoSort(s) == s
\* sort.Strings
SortStrings(s) == InsertionSort(s)

\* types.IsInterface
IsInterface(t) == t.kind = "Named" /\ TypeDecl(t.pkg, t.name).iface

\* A method of a method set: the declaring object and the signature.  The
\* signature carries the parameter names of its declaration (params), which
\* types.Identical ignores.
Selection(pkg, recv, m) ==
    [Signature |-> [shape |-> m.shape, params |-> <<pkg, recv>>],
     Obj |-> [pkg |-> pkg, recv |-> recv, name |-> m.name, doc |-> m.doc]]

\* types.NewMethodSet: a named type has its value-receiver methods (an
\* interface its own methods); a pointer to a non-interface named type has
\* the pointer-receiver methods too; a pointer to an interface has none.
NewMethodSet(t) ==
    LET d == TypeDecl(t.pkg, t.name)
        ms == IF t.kind = "Named" THEN d.val
              ELSE IF d.iface THEN {}
              ELSE d.val \cup d.ptr
    IN {Selection(t.pkg, t.name, m) : m \in ms}

\* Faulty variant: any two signatures compare identical.
IdenticalAlways(a, b) == TRUE
\* types.Identical on two signatures: parameter names do not matter.
Identical(a, b) == a.shape = b.shape

\* A Go map: nil or not, and its entries.
NilMap == [isNil |-> TRUE, m |-> <<>>]
MakeMap(f) == [isNil |-> FALSE, m |-> f]

\* Faulty variant: an empty map is taken for nil.
EmptyIsNil(c) == c.isNil \/ DOMAIN c.m = {}
\* common == nil
IsNil(c) == c.isNil


\* Faulty variant: the flag is ignored.
KeepAll(priv, name) == TRUE
\* The filter of the method loop: *private || ast.IsExported(name).
Keep(priv, name) == priv \/ IsExported(name)

\* Faulty variant: the type is never wrapped.
NoWrap(t) == t
\* Wrap the type in a pointer if it might enlarge the method set.
Wrap(t) == IF t.kind # "Pointer" /\ ~IsInterface(t) THEN NewPointer(t) ELSE t

\* The map from name to method signature built from the method set of t.
Sigs(t, priv) ==
    LET ms == {s \in NewMethodSet(t) : Keep(priv, s.Obj.name)}
    IN [n \in {s.Obj.name : s \in ms} |->
          LET s == CHOOSE x \in ms : x.Obj.name = n
          IN [Signature |-> s.Signature, Obj |-> s.Obj]]

Restrict(f, S) == [k \in S |-> f[k]]

\* Faulty variants: signatures are not compared; the later entry is kept.
RemoveUnlessNamed(c, sg) == Restrict(c, {k \in DOMAIN c : k \in DOMAIN sg})
ReplaceByLater(c, sg) ==
    Restrict(sg, {k \in DOMAIN c :
                    k \in DOMAIN sg /\ Identical(c[k].Signature, sg[k].Signature)})
\* Remove all methods not implemented by the later type.
RemoveMissing(c, sg) ==
    Restrict(c, {k \in DOMAIN c :
                   ~(k \notin DOMAIN sg \/ ~Identical(c[k].Signature, sg[k].Signature))})

\* The body of the intersection loop after sigs is built.
Intersect(c, sg) ==
    IF IsNil(c) THEN MakeMap(sg) ELSE MakeMap(RemoveMissing(c.m, sg))

\* The orders in which a range over the map may visit its keys.
Orders(S) ==
    {f \in [1..Cardinality(S) -> S] : \A a, b \in DOMAIN f : f[a] = f[b] => a = b}

\* One line of text.
NoSig == [shape |-> 0, params |-> <<>>]
Line(k, name, sig, typ) == [k |-> k, name |-> name, sig |-> sig, typ |-> typ]
Text(k) == Line(k, <<>>, NoSig, NotNamed)

\* The lines written to buf for one method: its doc comment, if requested
\* and present, then its name and signature.
MethodLines(name, method, withDoc) ==
    (IF withDoc /\ method.Obj.doc
       THEN <<Line("doc", method.Obj.name, NoSig, Named(method.Obj.pkg, method.Obj.recv))>>
       ELSE <<>>)
    \o <<Line("method", name, method.Signature, NotNamed)>>

RECURSIVE MethodsText(_, _, _)
MethodsText(ns, c, withDoc) ==
    IF Len(ns) = 0 THEN <<>>
    ELSE MethodLines(ns[1], c[ns[1]], withDoc) \o MethodsText(Tail(ns), c, withDoc)

\* The buffer: package header, methods, closing brace.
Buffer(ns, c, withDoc) ==
    <<Text("package common;type T interface{")>>
    \o MethodsText(ns, c, withDoc) \o <<Text("}")>>

\* format.Source puts the package clause and the type declaration on lines
\* of their own.
FormatLine(l) ==
    IF l.k = "package common;type T interface{"
    THEN <<Text("package common"), Text(""), Text("type T interface {")>>
    ELSE <<l>>

RECURSIVE FormatSource(_)
FormatSource(b) ==
    IF Len(b) = 0 THEN <<>> ELSE FormatLine(b[1]) \o FormatSource(Tail(b))

\* src[bytes.Index(src, "interface"):]
HasInterface(l) == l.k \in {"type T interface {", "package common;type T interface{"}
CutLine(l) == IF l.k = "type T interface {" THEN Text("interface {") ELSE Text("interface{")
RemoveHeader(s) ==
    LET hits == {k \in 1..Len(s) : HasInterface(s[k])}
    IN IF hits = {} THEN s
       ELSE LET idx == CHOOSE k \in hits : \A j \in hits : k <= j
            IN <<CutLine(s[idx])>> \o SubSeq(s, idx + 1, Len(s))

\* types.NewFunc(token.NoPos, nil, name, sig) for every entry of common, and
\* types.NewInterface of them.
NoPkg == <<>>
NewInterface(c) ==
    {[pkg |-> NoPkg, name |-> k, Signature |-> c[k].Signature] : k \in DOMAIN c}

\* Two identifiers are the same if the names are equal and, for an
\* unexported name, the packages are.
SameId(obj, pkg, name) == obj.name = name /\ (IsExported(name) \/ obj.pkg = pkg)

\* Faulty variant: the pointer is always omitted.
ImplementsAlways(V, iface) == TRUE
\* types.Implements
Implements(V, iface) ==
    \A f \in iface : \E s \in NewMethodSet(V) :
        SameId(s.Obj, f.pkg, f.name) /\ Identical(s.Signature, f.Signature)

\* Don't print a pointer type if the element type implements the interface.
HeaderType(typ, iface) ==
    IF typ.kind = "Pointer" /\ Implements(Elem(typ), iface) THEN Elem(typ) ELSE typ

\* Faulty variant: the types are listed last to first.
HeaderReversed(ts, iface) ==
    <<Text("// Common interface of")>>
    \o [k \in 1..Len(ts) |-> Line("// type", <<>>, NoSig, HeaderType(ts[Len(ts) + 1 - k], iface))]
\* The header: the title line, then one comment line per type.
Header(ts, iface) ==
    <<Text("// Common interface of")>>
    \o [k \in 1..Len(ts) |-> Line("// type", <<>>, NoSig, HeaderType(ts[k], iface))]

\* The intersection loop as a function of the list of types: the value of
\* common after the types ts have been processed, starting from c.
RECURSIVE CommonFrom(_, _, _)
CommonFrom(c, ts, priv) ==
    IF Len(ts) = 0 THEN c
    ELSE CommonFrom(Intersect(c, Sigs(Wrap(ts[1]), priv)), Tail(ts), priv)

----------------------------------------------------------------------------
VARIABLES args, comments, header, private, pc, i, argTypes, imports, typs,
          common, sigs, names, src, stdout, fatal

vars == <<args, comments, header, private, pc, i, argTypes, imports, typs,
          common, sigs, names, src, stdout, fatal>>

flags == <<args, comments, header, private>>

Init ==
    /\ args \in SeqsUpTo(ArgStrings, MaxArgs)
    /\ comments \in BOOLEAN
    /\ header \in BOOLEAN
    /\ private \in BOOLEAN
    /\ pc = "start"
    /\ i = 1
    /\ argTypes = <<>>
    /\ imports = {}
    /\ typs = <<>>
    /\ common = NilMap
    /\ sigs = <<>>
    /\ names = <<>>
    /\ src = <<>>
    /\ stdout = <<>>
    /\ fatal = ""

Fatalf(msg) ==
    /\ pc' = "fatal"
    /\ fatal' = msg

\* flag.NArg() == 0: usage and exit.
Usage ==
    /\ pc = "start"
    /\ Len(args) = 0
    /\ pc' = "exit"
    /\ UNCHANGED <<flags, i, argTypes, imports, typs, common, sigs, names, src,
                   stdout, fatal>>

Start ==
    /\ pc = "start"
    /\ Len(args) # 0
    /\ pc' = "parse"
    /\ i' = 1
    /\ UNCHANGED <<flags, argTypes, imports, typs, common, sigs, names, src,
                   stdout, fatal>>

\* One iteration of the argument loop on a malformed argument.
ParseArgFatal ==
    /\ pc = "parse"
    /\ LastIndexByte(args[i], Dot) < 1
    /\ Fatalf("Expected [pkg].[type]")
    /\ UNCHANGED <<flags, i, argTypes, imports, typs, common, sigs, names, src,
                   stdout>>

\* One iteration of the argument loop.
ParseArg ==
    /\ pc = "parse"
    /\ LET arg == args[i]
           idx == LastIndexByte(arg, Dot)
           pkg == SubSeq(arg, 1, idx)
           typ == SubSeq(arg, idx + 2, Len(arg))
       IN /\ idx >= 1
          /\ argTypes' = Append(argTypes, [pkg |-> pkg, typ |-> typ])
          /\ imports' = imports \cup {pkg}
    /\ i' = i + 1
    /\ pc' = IF i = Len(args) THEN "load" ELSE "parse"
    /\ UNCHANGED <<flags, typs, common, sigs, names, src, stdout, fatal>>

\* conf.Load() fails.
LoadFatal ==
    /\ pc = "load"
    /\ ~(imports \subseteq Packages)
    /\ Fatalf("Error loading packages")
    /\ UNCHANGED <<flags, i, argTypes, imports, typs, common, sigs, names, src,
                   stdout>>

\* conf.Load() succeeds.
Load ==
    /\ pc = "load"
    /\ imports \subseteq Packages
    /\ pc' = "lookup"
    /\ i' = 1
    /\ UNCHANGED <<flags, argTypes, imports, typs, common, sigs, names, src,
                   stdout, fatal>>

\* One iteration of the lookup loop: the name is not in the package scope.
LookupFatal ==
    /\ pc = "lookup"
    /\ Lookup(argTypes[i].pkg, argTypes[i].typ) = NoObject
    /\ Fatalf("Lookup failed")
    /\ UNCHANGED <<flags, i, argTypes, imports, typs, common, sigs, names, src,
                   stdout>>

\* One iteration of the lookup loop: the object's type is not *types.Named.
NotDeclaredFatal ==
    /\ pc = "lookup"
    /\ Lookup(argTypes[i].pkg, argTypes[i].typ) # NoObject
    /\ Lookup(argTypes[i].pkg, argTypes[i].typ).type.kind # "Named"
    /\ Fatalf("is not a declared type")
    /\ UNCHANGED <<flags, i, argTypes, imports, typs, common, sigs, names, src,
                   stdout>>

\* One iteration of the lookup loop.
LookupType ==
    /\ pc = "lookup"
    /\ LET obj == Lookup(argTypes[i].pkg, argTypes[i].typ)
       IN /\ obj # NoObject
          /\ obj.type.kind = "Named"
          /\ typs' = Append(typs, obj.type)
    /\ i' = IF i = Len(argTypes) THEN 1 ELSE i + 1
    /\ pc' = IF i = Len(argTypes) THEN "loop" ELSE "lookup"
    /\ UNCHANGED <<flags, argTypes, imports, common, sigs, names, src, stdout,
                   fatal>>

\* One iteration of the intersection loop.
CommonMethods ==
    /\ pc = "loop"
    /\ LET t == Wrap(typs[i])
           sg == Sigs(t, private)
       IN /\ typs' = [typs EXCEPT ![i] = t]
          /\ sigs' = sg
          /\ common' = Intersect(common, sg)
    /\ i' = IF i = Len(typs) THEN 1 ELSE i + 1
    /\ pc' = IF i = Len(typs) THEN "names" ELSE "loop"
    /\ UNCHANGED <<flags, argTypes, imports, names, src, stdout, fatal>>

\* Create a sorted list of method names.
SortedNames ==
    /\ pc = "names"
    /\ \E order \in Orders(DOMAIN common.m) : names' = SortStrings(order)
    /\ pc' = "render"
    /\ UNCHANGED <<flags, i, argTypes, imports, typs, common, sigs, src, stdout,
                   fatal>>

\* Write the buffer, pretty-print it and remove the package header.
Render ==
    /\ pc = "render"
    /\ src' = RemoveHeader(FormatSource(Buffer(names, common.m, comments)))
    /\ pc' = IF header THEN "header" ELSE "print"
    /\ UNCHANGED <<flags, i, argTypes, imports, typs, common, sigs, names,
                   stdout, fatal>>

\* Print a header, if requested.
PrintHeader ==
    /\ pc = "header"
    /\ stdout' = stdout \o Header(typs, NewInterface(common.m))
    /\ pc' = "print"
    /\ UNCHANGED <<flags, i, argTypes, imports, typs, common, sigs, names, src,
                   fatal>>

\* Print the result.
PrintResult ==
    /\ pc = "print"
    /\ stdout' = stdout \o src
    /\ pc' = "done"
    /\ UNCHANGED <<flags, i, argTypes, imports, typs, common, sigs, names, src,
                   fatal>>

Next ==
    \/ Usage
    \/ Start
    \/ ParseArgFatal
    \/ ParseArg
    \/ LoadFatal
    \/ Load
    \/ LookupFatal
    \/ NotDeclaredFatal
    \/ LookupType
    \/ CommonMethods
    \/ SortedNames
    \/ Render
    \/ PrintHeader
    \/ PrintResult

Spec == Init /\ [][Next]_vars


----------------------------------------------------------------------------
(* Vocabulary of the properties. *)

AfterParse == {"load", "lookup", "loop", "names", "render", "header", "print", "done"}
AfterLookup == {"loop", "names", "render", "header", "print", "done"}
AfterLoop == {"names", "render", "header", "print", "done"}

\* The number of types the intersection loop has processed.
Processed ==
    IF pc = "loop" THEN i - 1 ELSE IF pc \in AfterLoop THEN Len(typs) ELSE 0

\* The declared type argument k resolved to.
Resolved(k) == Lookup(argTypes[k].pkg, argTypes[k].typ).type

\* Every method declared for a named type, whatever its receiver.
Declared(t) == TypeDecl(t.pkg, t.name).val \cup TypeDecl(t.pkg, t.name).ptr

\* The methods of a named type that the flag -private lets through.
Filtered(t) == {m \in Declared(t) : private \/ IsExported(m.name)}

AllNames == {mC, mR, mRa, mW, mf}

\* The lines of the printed interface declaration, and those before it.
HeaderLen == IF header THEN Len(typs) + 1 ELSE 0
Decl == SubSeq(stdout, HeaderLen + 1, Len(stdout))
MethodLinesOf(s) == {k \in 1..Len(s) : s[k].k = "method"}
PrintedNames == {Decl[k].name : k \in MethodLinesOf(Decl)}
PrintedPairs == {<<Decl[k].name, Decl[k].sig.shape>> : k \in MethodLinesOf(Decl)}

\* The (name, signature) pairs of a map, signatures up to identity.
Pairs(m) == {<<k, m[k].Signature.shape>> : k \in DOMAIN m}

IndexOrders(n) ==
    {f \in [1..n -> 1..n] : \A a, b \in 1..n : f[a] = f[b] => a = b}
RemoveAt(s, k) == SubSeq(s, 1, k - 1) \o SubSeq(s, k + 1, Len(s))

----------------------------------------------------------------------------
\* C1: for every non-empty list of resolved types, the method names printed
\* in the interface are exactly the names that occur in the filtered method
\* set of every listed type, with the same signature in all of them.
C1_PrintedIsIntersection ==
    pc = "done" =>
        PrintedNames =
            {n \in AllNames :
                /\ \A k \in 1..Len(argTypes) :
                      \E m \in Filtered(Resolved(k)) : m.name = n
                /\ \A j, k \in 1..Len(argTypes) :
                      \A a \in Filtered(Resolved(j)), b \in Filtered(Resolved(k)) :
                          (a.name = n /\ b.name = n) => a.shape = b.shape}

\* Two types: a name is printed, a name is dropped because one type lacks
\* it, and a name is dropped because its signatures differ.
C1_Witness ==
    /\ pc = "done"
    /\ Len(argTypes) = 2
    /\ PrintedNames # {}
    /\ \E n \in AllNames :
          /\ \E m \in Filtered(Resolved(1)) : m.name = n
          /\ ~\E m \in Filtered(Resolved(2)) : m.name = n
    /\ \E a \in Filtered(Resolved(1)), b \in Filtered(Resolved(2)) :
          a.name = b.name /\ a.shape # b.shape

\* C2: the map built for a type holds only the exported methods of its
\* method set when -private is off and all of them when it is on; with
\* -private off no unexported name is printed.
C2_PrivateFilter ==
    /\ Processed > 0 =>
          DOMAIN sigs =
              {s.Obj.name : s \in
                  {x \in NewMethodSet(typs[Processed]) :
                      private \/ (x.Obj.name[1] >= 65 /\ x.Obj.name[1] <= 90)}}
    /\ (pc = "done" /\ ~private) =>
          \A n \in PrintedNames : n[1] >= 65 /\ n[1] <= 90

\* -private is off, the type just processed has an unexported method, and
\* exported methods are printed.
C2_Witness ==
    /\ pc = "done"
    /\ ~private
    /\ \E s \in NewMethodSet(typs[Processed]) : s.Obj.name = mf
    /\ PrintedNames # {}

\* C3: every resolved type that is not an interface is replaced by a pointer
\* to it in the type list before its method set is computed, an interface
\* is left unchanged; the method set used for a non-interface type holds
\* its value-receiver and its pointer-receiver methods.
C3_PointerForm ==
    /\ \A k \in 1..Len(typs) :
          /\ typs[k].pkg = Resolved(k).pkg /\ typs[k].name = Resolved(k).name
          /\ typs[k].kind =
                IF k <= Processed /\ ~TypeDecl(typs[k].pkg, typs[k].name).iface
                THEN "Pointer" ELSE "Named"
    /\ Processed > 0 =>
          DOMAIN sigs = {m.name : m \in Filtered(Resolved(Processed))}

\* A struct type with an exported pointer-receiver method has been
\* processed, and the method is in its map.
C3_Witness ==
    /\ Processed > 0
    /\ typs[Processed].kind = "Pointer"
    /\ \E m \in TypeDecl(typs[Processed].pkg, typs[Processed].name).ptr :
          IsExported(m.name) /\ m.name \in DOMAIN sigs

\* C4: if any resolution step fails the program ends with a fatal message
\* and prints nothing: a malformed argument is rejected before any package
\* is loaded, a load error is fatal, and the first pair whose name is not
\* found or whose object is not a declared type is fatal.
C4_FatalOnFailedResolution ==
    /\ pc = "fatal" => (stdout = <<>> /\ fatal # "")
    /\ pc \in AfterParse =>
          \A k \in 1..Len(args) : LastIndexByte(args[k], Dot) >= 1
    /\ pc \in (AfterParse \ {"load"}) => imports \subseteq Packages
    /\ (pc = "fatal" /\ fatal \in {"Lookup failed", "is not a declared type"}) =>
          \A k \in 1..(i - 1) :
              Lookup(argTypes[k].pkg, argTypes[k].typ).okind = "TypeName"
    /\ pc \in AfterLookup =>
          \A k \in 1..Len(argTypes) :
              Lookup(argTypes[k].pkg, argTypes[k].typ).okind = "TypeName"

\* C5: with -header the output is the title line, then one comment line per
\* input type in command-line order, then the interface declaration;
\* without it only the declaration.  The declaration has the same form in
\* both cases: the opening line, the methods of common in the order of
\* names, the closing line.
C5_HeaderThenDeclaration ==
    pc = "done" =>
        /\ Len(stdout) = HeaderLen + Len(src)
        /\ header =>
              /\ stdout[1].k = "// Common interface of"
              /\ \A k \in 1..Len(args) :
                    /\ stdout[k + 1].k = "// type"
                    /\ stdout[k + 1].typ.pkg = Resolved(k).pkg
                    /\ stdout[k + 1].typ.name = Resolved(k).name
        /\ Decl = src
        /\ Decl[1].k = "interface {"
        /\ Decl[Len(Decl)].k = "}"
        /\ \A k \in 2..(Len(Decl) - 1) : Decl[k].k \in {"doc", "method"}
        /\ [k \in 1..Len(names) |->
              LET l == Decl[CHOOSE j \in MethodLinesOf(Decl) :
                              Cardinality({x \in MethodLinesOf(Decl) : x <= j}) = k]
              IN <<l.name, l.sig>>]
           = [k \in 1..Len(names) |-> <<names[k], common.m[names[k]].Signature>>]
        /\ Cardinality(MethodLinesOf(Decl)) = Len(names)

\* -header is on and two different types were given.
C5_Witness ==
    /\ pc = "done"
    /\ header
    /\ Len(args) >= 2
    /\ Resolved(1) # Resolved(2)
    /\ PrintedNames # {}

C7_SortedMethods ==
    /\ pc \in (AfterLoop \ {"names"}) =>
          /\ \A k \in 1..(Len(names) - 1) : Less(names[k], names[k + 1])
          /\ {names[k] : k \in 1..Len(names)} = DOMAIN common.m
    /\ pc = "done" =>
          /\ \A j, k \in MethodLinesOf(Decl) :
                j < k => Less(Decl[j].name, Decl[k].name)
          /\ PrintedNames = DOMAIN common.m

\* Three or more methods are printed, one name a prefix of another.
C7_Witness ==
    /\ pc = "done"
    /\ Cardinality(PrintedNames) >= 3
    /\ {mR, mRa} \subseteq PrintedNames

\* C8: every entry kept in common is the one that came from the first
\* type's method set, and with -comments the doc comments printed are those
\* of the first type's methods.
C8_EntriesOfFirstType ==
    /\ Processed > 0 =>
          \A k \in DOMAIN common.m :
              /\ common.m[k].Obj.pkg = Resolved(1).pkg
              /\ common.m[k].Obj.recv = Resolved(1).name
              /\ common.m[k].Obj.name = k
              /\ common.m[k].Signature.params = <<Resolved(1).pkg, Resolved(1).name>>
    /\ pc = "done" =>
          /\ \A k \in 1..Len(Decl) :
                Decl[k].k = "doc" =>
                    /\ comments
                    /\ Decl[k].typ = Resolved(1)
                    /\ Decl[k + 1].k = "method" /\ Decl[k + 1].name = Decl[k].name
          /\ \A k \in MethodLinesOf(Decl) :
                (Decl[k - 1].k = "doc") <=>
                    (comments /\ \E m \in Declared(Resolved(1)) :
                                    m.name = Decl[k].name /\ m.doc)

\* -comments is on, the second type differs from the first, a doc comment
\* is printed, and a printed method has a doc comment in the second type
\* but none in the first.
C8_Witness ==
    /\ pc = "done"
    /\ comments
    /\ Len(argTypes) >= 2
    /\ Resolved(1) # Resolved(2)
    /\ \E k \in 1..Len(Decl) : Decl[k].k = "doc"
    /\ \E n \in PrintedNames :
          /\ \E m \in Declared(Resolved(1)) : m.name = n /\ ~m.doc
          /\ \E m \in Declared(Resolved(2)) : m.name = n /\ m.doc

\* C9: the set of (method name, signature) pairs of the printed interface
\* is the same for every permutation of the type arguments and when a
\* repeated type argument is listed once less; with a single type argument
\* it is that type's whole filtered method set.
C9_OrderAndRepetition ==
    pc = "done" =>
        LET ts == [k \in 1..Len(argTypes) |-> Resolved(k)]
        IN /\ PrintedPairs = Pairs(common.m)
           /\ \A p \in IndexOrders(Len(ts)) :
                 Pairs(CommonFrom(NilMap, [k \in 1..Len(ts) |-> ts[p[k]]], private).m)
                    = PrintedPairs
           /\ \A k \in 1..Len(ts) :
                 (\E j \in 1..Len(ts) : j # k /\ ts[j] = ts[k]) =>
                     Pairs(CommonFrom(NilMap, RemoveAt(ts, k), private).m) = PrintedPairs
           /\ Len(ts) = 1 =>
                 PrintedPairs = {<<m.name, m.shape>> : m \in Filtered(ts[1])}

\* Three arguments, one type listed twice and a different one, with a
\* method whose signature differs between the two types.
C9_Witness ==
    /\ pc = "done"
    /\ Len(argTypes) = 3
    /\ Resolved(1) = Resolved(3)
    /\ Resolved(1) # Resolved(2)
    /\ PrintedNames # {}
    /\ \E a \in Filtered(Resolved(1)), b \in Filtered(Resolved(2)) :
          a.name = b.name /\ a.shape # b.shape

\* C10: common is initialized exactly once, from the first type; each later
\* type only removes entries; after type k its keys are in the filtered
\* method set of every type 1..k; when the first type's filtered method set
\* is empty common is an empty non-nil map and the final interface is empty.
C10_NeverGrows ==
    /\ [][/\ (pc = "loop" /\ i = 1) => (common.isNil /\ ~common'.isNil)
          /\ ~common.isNil =>
                /\ ~common'.isNil
                /\ DOMAIN common'.m \subseteq DOMAIN common.m
                /\ \A k \in DOMAIN common'.m : common'.m[k] = common.m[k]]_vars
    /\ [](/\ common.isNil <=> Processed = 0
          /\ \A k \in 1..Processed :
                DOMAIN common.m \subseteq {m.name : m \in Filtered(Resolved(k))}
          /\ (pc = "done" /\ Filtered(Resolved(1)) = {}) => PrintedNames = {})

\* The first type has an empty filtered method set, the second has not, and
\* the printed interface is empty.
C10_Witness ==
    /\ pc = "done"
    /\ Len(argTypes) >= 2
    /\ Filtered(Resolved(1)) = {}
    /\ Filtered(Resolved(2)) # {}
    /\ ~common.isNil
    /\ PrintedNames = {}

====
